---- MODULE Spec2Model ----
(***************************************************************************)
(* A model of srt_to_gpx.py: the per-file pipeline of main (parse_srt,     *)
(* generate_gpx, validate_conversion, set_file_modification_time) over a   *)
(* small file system.                                                      *)
(*                                                                         *)
(* A Python str is a sequence of one-character strings; a float is a       *)
(* record (nan, +-inf, or a signed decimal without trailing fraction       *)
(* zeros), with Python's == on it; an XML element is a record of tag,      *)
(* attrib, text and children.                                              *)
(***************************************************************************)
EXTENDS Integers, Sequences, FiniteSets, TLC

\* ------------------------------------------------------------ bounds
\* The longest argument list of main.
MaxFiles == 2
\* The most caption blocks in a generated subtitle file.
MaxBlocks == 2
\* The most records and track points handed to the validator on its own.
MaxPts == 2

\* ------------------------------------------------------ str operations
NL == "\n"
Whitespace == {" ", NL}
Digits == {"0", "1", "2", "3", "4", "5", "6", "7", "8", "9"}

DigitVal(c) ==
    CASE c = "0" -> 0 [] c = "1" -> 1 [] c = "2" -> 2 [] c = "3" -> 3
      [] c = "4" -> 4 [] c = "5" -> 5 [] c = "6" -> 6 [] c = "7" -> 7
      [] c = "8" -> 8 [] c = "9" -> 9

DigitChar(d) ==
    CASE d = 0 -> "0" [] d = 1 -> "1" [] d = 2 -> "2" [] d = 3 -> "3"
      [] d = 4 -> "4" [] d = 5 -> "5" [] d = 6 -> "6" [] d = 7 -> "7"
      [] d = 8 -> "8" [] d = 9 -> "9"

\* F at the value of x, with x worked out once.
With(x, F(_)) == CHOOSE r \in {F(v) : v \in {x}} : TRUE

\* s[a:b] with 1-based inclusive bounds; empty when a > b.
Slice(s, a, b) == IF a > b THEN <<>> ELSE SubSeq(s, a, b)

\* s.startswith(sub, k - 1)
MatchAt(s, sub, k) ==
    /\ k + Len(sub) - 1 <= Len(s)
    /\ \A j \in 1..Len(sub) : s[k + j - 1] = sub[j]

\* s.find(sub, from - 1) + 1: the first place at or after `from`, 0 if none.
RECURSIVE Find(_, _, _)
Find(s, sub, from) ==
    IF from + Len(sub) - 1 > Len(s) THEN 0
    ELSE IF MatchAt(s, sub, from) THEN from
    ELSE Find(s, sub, from + 1)

\* sub in s
Contains(sub, s) == Find(s, sub, 1) # 0

\* s.replace(old, new): every non-overlapping occurrence, left to right.
Replace(s, old, new) ==
    LET replace[t \in Seq(STRING)] ==
          LET k == Find(t, old, 1)
          IN  IF k = 0 THEN t
              ELSE Slice(t, 1, k - 1) \o new
                     \o replace[Slice(t, k + Len(old), Len(t))]
    IN  replace[s]

\* s.split(sep) for a one-character separator: the list of fields.
Split(s, sep) ==
    LET split[t \in Seq(STRING)] ==
          LET k == Find(t, <<sep>>, 1)
          IN  IF k = 0 THEN <<t>>
              ELSE <<Slice(t, 1, k - 1)>> \o split[Slice(t, k + 1, Len(t))]
    IN  split[s]

\* s.strip()
LStrip(s) ==
    LET lstrip[t \in Seq(STRING)] ==
          IF t # <<>> /\ t[1] \in Whitespace THEN lstrip[Tail(t)] ELSE t
    IN  lstrip[s]

RStrip(s) ==
    LET rstrip[t \in Seq(STRING)] ==
          IF t # <<>> /\ t[Len(t)] \in Whitespace
          THEN rstrip[Slice(t, 1, Len(t) - 1)] ELSE t
    IN  rstrip[s]

Strip(s) == LStrip(RStrip(s))

\* ------------------------------------------------------------- floats
\* What float() gives when it raises ValueError.
FloatError == [k |-> "ValueError", neg |-> FALSE, m |-> 0, f |-> 0]

NaN == [k |-> "nan", neg |-> FALSE, m |-> 0, f |-> 0]
Inf(neg) == [k |-> "inf", neg |-> neg, m |-> 0, f |-> 0]

RECURSIVE Pow10(_)
Pow10(n) == IF n = 0 THEN 1 ELSE 10 * Pow10(n - 1)

\* A decimal m / 10^f without trailing zeros in its fraction.
RECURSIVE Fin(_, _, _)
Fin(neg, m, f) ==
    IF f > 0 /\ m % 10 = 0 THEN Fin(neg, m \div 10, f - 1)
    ELSE [k |-> "fin", neg |-> neg, m |-> m, f |-> f]

\* int(s) for a str of digits
DigitsVal(s) ==
    LET val[t \in Seq(STRING)] ==
          IF t = <<>> THEN 0
          ELSE 10 * val[Slice(t, 1, Len(t) - 1)] + DigitVal(t[Len(t)])
    IN  val[s]

AllDigits(s) == \A j \in 1..Len(s) : s[j] \in Digits

\* float(s) on the stripped, unsigned text.
FloatBody(neg, b) ==
    IF b = <<"n", "a", "n">> THEN NaN
    ELSE IF b = <<"i", "n", "f">> THEN Inf(neg)
    ELSE LET dot == Find(b, <<".">>, 1)
             ip  == IF dot = 0 THEN b ELSE Slice(b, 1, dot - 1)
             fp  == IF dot = 0 THEN <<>> ELSE Slice(b, dot + 1, Len(b))
         IN  IF AllDigits(ip) /\ AllDigits(fp) /\ Len(ip) + Len(fp) > 0
             THEN With(DigitsVal(ip \o fp), LAMBDA m : Fin(neg, m, Len(fp)))
             ELSE FloatError

\* float(s) for a str: surrounding whitespace, a sign, then digits with an
\* optional point, or nan, or inf.
PyFloat(s) ==
    LET float[t \in Seq(STRING)] ==
          IF t = <<>> THEN FloatError
          ELSE IF t[1] = "-" THEN FloatBody(TRUE, Tail(t))
          ELSE IF t[1] = "+" THEN FloatBody(FALSE, Tail(t))
          ELSE FloatBody(FALSE, t)
    IN  float[Strip(s)]

RECURSIVE NatStr(_)
NatStr(n) ==
    IF n < 10 THEN <<DigitChar(n)>>
    ELSE NatStr(n \div 10) \o <<DigitChar(n % 10)>>

RECURSIVE ZeroPad(_, _)
ZeroPad(s, w) == IF Len(s) >= w THEN s ELSE ZeroPad(<<"0">> \o s, w)

\* str(x) for a float: repr's shortest form, always with a fraction.
PyStr(x) ==
    LET sign == IF x.neg THEN <<"-">> ELSE <<>>
    IN  IF x.k = "nan" THEN <<"n", "a", "n">>
        ELSE IF x.k = "inf" THEN sign \o <<"i", "n", "f">>
        ELSE IF x.f = 0 THEN sign \o NatStr(x.m) \o <<".", "0">>
        ELSE sign \o NatStr(x.m \div Pow10(x.f)) \o <<".">>
               \o ZeroPad(NatStr(x.m % Pow10(x.f)), x.f)

\* x == y for floats: nan equals nothing, -0.0 equals 0.0.
FloatEq(x, y) ==
    /\ x.k # "nan" /\ y.k # "nan"
    /\ x.k = y.k
    /\ IF x.k = "inf" THEN x.neg = y.neg
       ELSE /\ x.m = y.m /\ x.f = y.f
            /\ (x.neg = y.neg \/ x.m = 0)

\* ------------------------------------------------- convert_to_iso8601
MonthNames ==
    << <<"J","a","n">>, <<"F","e","b">>, <<"M","a","r">>, <<"A","p","r">>,
       <<"M","a","y">>, <<"J","u","n">>, <<"J","u","l">>, <<"A","u","g">>,
       <<"S","e","p">>, <<"O","c","t">>, <<"N","o","v">>, <<"D","e","c">> >>

MonthNumber(w) ==
    LET hits == {n \in 1..12 : MonthNames[n] = w}
    IN  IF hits = {} THEN 0 ELSE CHOOSE n \in hits : TRUE

IsLeap(y) == (y % 4 = 0 /\ y % 100 # 0) \/ y % 400 = 0

DaysIn(mon, y) ==
    IF mon = 2 THEN (IF IsLeap(y) THEN 29 ELSE 28)
    ELSE IF mon \in {4, 6, 9, 11} THEN 30 ELSE 31

\* A strptime numeric field of one or two digits.
IsNum12(s) == Len(s) \in {1, 2} /\ AllDigits(s)

\* datetime.strptime(date_str, "%b %d, %Y %I:%M:%S %p"): the fields, or
\* ok = FALSE where strptime raises ValueError.
StrptimeFields(w, hms) ==
    LET bad == [ok |-> FALSE, year |-> 0, month |-> 0, day |-> 0,
                hour |-> 0, minute |-> 0, second |-> 0]
    IN  IF Len(w) # 5 THEN bad
        ELSE LET mon  == MonthNumber(w[1])
                 dtxt == Slice(w[2], 1, Len(w[2]) - 1)
                 pm   == w[5] = <<"P", "M">>
             IN  IF /\ mon # 0
                    /\ w[2] # <<>> /\ w[2][Len(w[2])] = "," /\ IsNum12(dtxt)
                    /\ Len(w[3]) = 4 /\ AllDigits(w[3]) /\ DigitsVal(w[3]) >= 1
                    /\ DigitsVal(dtxt) \in 1..DaysIn(mon, DigitsVal(w[3]))
                    /\ Len(hms) = 3
                    /\ IsNum12(hms[1]) /\ DigitsVal(hms[1]) \in 1..12
                    /\ IsNum12(hms[2]) /\ DigitsVal(hms[2]) \in 0..59
                    /\ IsNum12(hms[3]) /\ DigitsVal(hms[3]) \in 0..59
                    /\ w[5] \in {<<"A", "M">>, <<"P", "M">>}
                 THEN [ok |-> TRUE, year |-> DigitsVal(w[3]), month |-> mon,
                       day |-> DigitsVal(dtxt),
                       hour |-> (DigitsVal(hms[1]) % 12)
                                  + (IF pm THEN 12 ELSE 0),
                       minute |-> DigitsVal(hms[2]),
                       second |-> DigitsVal(hms[3])]
                 ELSE bad

Strptime(date_str) ==
    With(Split(date_str, " "),
         LAMBDA w : With(IF Len(w) = 5 THEN Split(w[4], ":") ELSE <<>>,
                         LAMBDA hms : StrptimeFields(w, hms)))

\* parsed_time.strftime("%Y-%m-%dT%H:%M:%SZ")
Strftime(t) ==
    ZeroPad(NatStr(t.year), 4) \o <<"-">> \o ZeroPad(NatStr(t.month), 2)
      \o <<"-">> \o ZeroPad(NatStr(t.day), 2) \o <<"T">>
      \o ZeroPad(NatStr(t.hour), 2) \o <<":">>
      \o ZeroPad(NatStr(t.minute), 2) \o <<":">>
      \o ZeroPad(NatStr(t.second), 2) \o <<"Z">>

\* convert_to_iso8601(date_str): the ISO 8601 text, or ok = FALSE where it
\* raises ValueError("Invalid time format: ...").
convert_to_iso8601(date_str) ==
    With(Strptime(date_str),
         LAMBDA t : IF t.ok THEN [ok |-> TRUE, text |-> Strftime(t)]
                    ELSE [ok |-> FALSE, text |-> date_str])

\* ------------------------------------------------ xml.etree.ElementTree
GpxNs == <<"http://www.topografix.com/GPX/1/1">>
NoNs == <<>>

\* ET.Element / ET.SubElement: an element with no children yet.
Element(name, attrib, text) ==
    [tag |-> [ns |-> NoNs, name |-> name], attrib |-> attrib,
     text |-> text, children |-> <<>>]

NoElement == Element("", <<>>, <<>>)

\* elem.get(key): the attribute's value, <<>> when there is none.
AttrGet(e, key) ==
    LET hits == {j \in 1..Len(e.attrib) : e.attrib[j][1] = key}
    IN  IF hits = {} THEN <<>> ELSE e.attrib[CHOOSE j \in hits : TRUE][2]

\* ET.parse of what tree.write wrote: an xmlns attribute is a namespace
\* declaration, not an attribute; it qualifies the tag of its element and
\* of every descendant that declares none.
RECURSIVE XmlParse(_, _)
XmlParse(e, inherited) ==
    LET decl == AttrGet(e, "xmlns")
        ns   == IF decl # <<>> THEN decl ELSE inherited
        keep == SelectSeq(e.attrib, LAMBDA a : a[1] # "xmlns")
    IN  [tag |-> [ns |-> ns, name |-> e.tag.name], attrib |-> keep,
         text |-> e.text,
         children |-> [j \in 1..Len(e.children) |->
                          XmlParse(e.children[j], ns)]]

\* The members of a list of lists, in order.
RECURSIVE ConcatUpTo(_, _)
ConcatUpTo(ss, n) ==
    IF n = 0 THEN <<>> ELSE ConcatUpTo(ss, n - 1) \o ss[n]

ConcatAll(ss) == With(ss, LAMBDA v : ConcatUpTo(v, Len(v)))

\* elem.findall(".//ns:name"): the matching descendants in document order.
RECURSIVE FindAll(_, _)
FindAll(e, tag) ==
    ConcatAll([j \in 1..Len(e.children) |->
        (IF e.children[j].tag = tag THEN <<e.children[j]>> ELSE <<>>)
          \o FindAll(e.children[j], tag)])

\* elem.find("ns:name"): the first matching child, NoElement for None.
FindChild(e, tag) ==
    LET hits == {j \in 1..Len(e.children) : e.children[j].tag = tag}
    IN  IF hits = {} THEN NoElement
        ELSE e.children[CHOOSE j \in hits : \A h \in hits : j <= h]

\* ------------------------------------------------------------ os.path
\* os.path.basename(p)
Basename(p) ==
    LET basename[t \in Seq(STRING)] ==
          LET k == Find(t, <<"/">>, 1)
          IN  IF k = 0 THEN t ELSE basename[Slice(t, k + 1, Len(t))]
    IN  basename[p]

\* os.path.join(a, b) for a relative b
OsPathJoin(a, b) ==
    IF a = <<>> THEN b
    ELSE IF a[Len(a)] = "/" THEN a \o b
    ELSE a \o <<"/">> \o b

\* The file a relative path names: leading "./" components name nothing.
NormPath(p) ==
    LET norm[t \in Seq(STRING)] ==
          IF MatchAt(t, <<".", "/">>, 1) THEN norm[Slice(t, 3, Len(t))] ELSE t
    IN  norm[p]

\* The directory holding the file a path names.
DirOf(p) ==
    LET q == NormPath(p)
        b == Basename(q)
    IN  IF Len(b) = Len(q) THEN <<".">>
        ELSE Slice(q, 1, Len(q) - Len(b) - 1)

\* -------------------------------------------------------- input files
IndexLine  == <<"1", NL>>
TimingLine == <<"0", " ", "-", "-", ">", " ", "1", NL>>

\* "Jul 4, 2024 6:13:17 PM"
TimeEvening ==
    <<"J","u","l"," ","4",","," ","2","0","2","4"," ",
      "6",":","1","3",":","1","7"," ","P","M">>
\* "Feb 29, 2024 12:00:05 AM"
TimeMidnight ==
    <<"F","e","b"," ","2","9",","," ","2","0","2","4"," ",
      "1","2",":","0","0",":","0","5"," ","A","M">>
\* "Jul 4, 2024 18:13:17 PM": no %I hour
TimeBadHour ==
    <<"J","u","l"," ","4",","," ","2","0","2","4"," ",
      "1","8",":","1","3",":","1","7"," ","P","M">>

LocGood      == <<"1",".","5",",","-","2",".","0",",","7","m">>
LocNegZero   == <<"-","0",".","0",",","2",",","i","n","f">>
LocSpaced    == <<" ","1",".","5"," ",","," ","2"," ",","," ","7"," ","m">>
LocNanLat    == <<"n","a","n",",","2",",","7">>
LocNanEle    == <<"1",".","5",",","2",",","n","a","n">>
LocHeading   == <<"N"," ","4","5"," ","W">>
LocBadLon    == <<"1",".","5",",","x",",","7","m">>
LocNoThird   == <<"1",".","5",",","2">>
LocEmptyEle  == <<"1",".","5",",","2",",","m">>
LocInnerUnit == <<"1",".","5",",","2",",","7","m","1">>

Line(text) == text \o <<NL>>

\* One caption block: index line, timing line, timestamp, location.
Block(time, loc) == <<IndexLine, TimingLine, Line(time), Line(loc)>>

LocLines ==
    {LocGood, LocNegZero, LocSpaced, LocNanLat, LocNanEle, LocHeading,
     LocBadLon, LocNoThird, LocEmptyEle, LocInnerUnit}

\* The blocks a generated file is made of: every location under a good
\* time, a second good time, a bad time, and blocks cut short.
Blocks ==
    {Block(TimeEvening, loc) : loc \in LocLines}
      \cup {Block(TimeMidnight, LocGood), Block(TimeBadHour, LocGood),
            <<IndexLine, TimingLine>>,
            <<IndexLine, TimingLine, Line(TimeEvening)>>}

RECURSIVE BlockSeqs(_)
BlockSeqs(n) ==
    IF n = 0 THEN {<<>>}
    ELSE LET shorter == BlockSeqs(n - 1)
         IN  shorter \cup {bs \o <<b>> : bs \in shorter, b \in Blocks}

\* file.readlines() of every generated file.
GeneratedFiles == {ConcatAll(bs) : bs \in BlockSeqs(MaxBlocks)}

NameA    == <<"a", ".", "s", "r", "t">>
NameTxt  == <<"b", ".", "t", "x", "t">>
NameSub  == <<"d", "/", "a", ".", "s", "r", "t">>
NameCut  == <<"t", ".", "s", "r", "t">>
NameHead == <<"h", ".", "s", "r", "t">>
NameBad  == <<"e", ".", "s", "r", "t">>
NameNone == <<"n", ".", "s", "r", "t">>

InputNames == <<NameA, NameTxt, NameSub, NameCut, NameHead, NameBad, NameNone>>

\* The lines of each named file as the run finds it; n.srt does not exist.
FixedLines(name) ==
    CASE name = NameA ->
           Block(TimeEvening, LocGood) \o Block(TimeEvening, LocHeading)
             \o Block(TimeMidnight, LocNegZero)
      [] name = NameTxt  -> Block(TimeMidnight, LocSpaced)
      [] name = NameSub  -> Block(TimeEvening, LocGood)
                              \o Block(TimeEvening, LocNanLat)
      [] name = NameCut  -> Block(TimeEvening, LocGood)
                              \o <<IndexLine, TimingLine, Line(TimeEvening)>>
      [] name = NameHead -> Block(TimeEvening, LocHeading)
                              \o Block(TimeEvening, LocBadLon)
      [] name = NameBad  -> Block(TimeEvening, LocGood)
                              \o Block(TimeBadHour, LocGood)
      [] OTHER -> <<>>

DirHere    == <<".">>
DirOut     == <<"o">>
DirMissing == <<"q">>
OutputDirs == {DirHere, DirOut, DirMissing}
ExistingDirs == {DirHere, DirOut, <<"d">>}

\* -------------------------------------------------------- file system
NoFile ==
    [exists |-> FALSE, kind |-> "", lines |-> <<>>, root |-> NoElement,
     atime |-> 0, mtime |-> 0]

TextFile(lines, t) ==
    [exists |-> TRUE, kind |-> "text", lines |-> lines, root |-> NoElement,
     atime |-> t, mtime |-> t]

XmlFile(root, t) ==
    [exists |-> TRUE, kind |-> "xml", lines |-> <<>>, root |-> root,
     atime |-> t, mtime |-> t]

\* file.readlines(): a written document is its declaration and one line of
\* markup, neither of which holds "-->".
ReadLines(f) ==
    IF f.kind = "text" THEN f.lines
    ELSE << <<"<", "?", "x", "m", "l", "?", ">", NL>>,
            <<"<", "g", "p", "x", ">">> >>

\* ---------------------------------------------------------- parse_srt
NoRecord == [ok |-> FALSE, time |-> <<>>, lat |-> FloatError,
             lon |-> FloatError, elevation |-> FloatError]

\* The body of parse_srt's try for one block: the entry appended, or
\* ok = FALSE where the block is counted as skipped (no comma, or a
\* ValueError or IndexError caught).
DecodeLocation(timestamp, location_data) ==
    IF ~Contains(<<",">>, location_data) THEN NoRecord
    ELSE LET fields == Split(location_data, ",")
             lat    == PyFloat(fields[1])
             lon    == PyFloat(fields[2])
         IN  IF lat = FloatError \/ lon = FloatError THEN NoRecord
             ELSE IF Len(fields) < 3 THEN NoRecord
             ELSE LET elevation ==
                          Replace(Strip(fields[3]), <<"m">>, <<>>)
                  IN  IF PyFloat(elevation) = FloatError THEN NoRecord
                      ELSE [ok |-> TRUE, time |-> timestamp, lat |-> lat,
                            lon |-> lon, elevation |-> PyFloat(elevation)]

Entry(r) == [time |-> r.time, lat |-> r.lat, lon |-> r.lon,
             elevation |-> r.elevation]

\* ------------------------------------------------------- generate_gpx
\* datetime.utcnow().strftime(...) at clock tick t
UtcNowText(t) ==
    Strftime([year |-> 2026, month |-> 1, day |-> 1, hour |-> 0,
              minute |-> t \div 60, second |-> t % 60])

Metadata(t) ==
    [Element("metadata", <<>>, <<>>) EXCEPT !.children =
       << Element("name", <<>>, <<"SRT to GPX Converter">>),
          Element("desc", <<>>,
                  <<"Converted using OpenCamera SRT to GPX Script">>),
          Element("author", <<>>, <<"OpenCamera Script">>),
          Element("time", <<>>, UtcNowText(t)) >>]

\* One pass of the loop over data: the trkpt appended for entry.
Trkpt(entry) ==
    [Element("trkpt", << <<"lat", PyStr(entry.lat)>>,
                         <<"lon", PyStr(entry.lon)>> >>, <<>>)
       EXCEPT !.children =
         << Element("ele", <<>>, PyStr(entry.elevation)),
            Element("time", <<>>, convert_to_iso8601(entry.time).text) >>]

\* The loop over data: the trkpts in order, or the first time that raises.
TrkptsOf(data) ==
    LET raising == {k \in 1..Len(data) : ~convert_to_iso8601(data[k].time).ok}
    IN  IF raising = {}
        THEN [ok |-> TRUE, pts |-> [k \in 1..Len(data) |-> Trkpt(data[k])],
              bad |-> <<>>]
        ELSE [ok |-> FALSE, pts |-> <<>>,
              bad |-> data[CHOOSE k \in raising :
                             \A h \in raising : k <= h].time]

\* The element tree generate_gpx writes for trkpts pts at clock tick t.
GpxTree(pts, t) ==
    [Element("gpx", << <<"version", <<"1.1">> >>,
                       <<"creator", <<"SRTtoGPX">> >>,
                       <<"xmlns", GpxNs>> >>, <<>>)
       EXCEPT !.children =
         << Metadata(t),
            [Element("trk", <<>>, <<>>) EXCEPT !.children =
               << [Element("trkseg", <<>>, <<>>)
                     EXCEPT !.children = pts] >>] >>]

\* ------------------------------------------------ validate_conversion
NoError == [exc |-> "", msg |-> <<>>]
AssertionError(text) == [exc |-> "AssertionError", msg |-> <<text>>]
InvalidTime(date_str) ==
    [exc |-> "ValueError", msg |-> <<"Invalid time format: ">> \o date_str]

FloatValueError ==
    [exc |-> "ValueError", msg |-> <<"could not convert string to float">>]
NoneTypeError ==
    [exc |-> "AttributeError",
     msg |-> <<"'NoneType' object has no attribute 'text'">>]

\* A loop body that compares elevation before coordinates.
ComparePointElevationFirst(srt_point, trkpt) ==
    LET lat  == PyFloat(AttrGet(trkpt, "lat"))
        lon  == PyFloat(AttrGet(trkpt, "lon"))
        elem == FindChild(trkpt, [ns |-> GpxNs, name |-> "ele"])
        time == FindChild(trkpt, [ns |-> GpxNs, name |-> "time"])
    IN  IF lat = FloatError \/ lon = FloatError THEN FloatValueError
        ELSE IF elem = NoElement THEN NoneTypeError
        ELSE IF PyFloat(elem.text) = FloatError THEN FloatValueError
        ELSE IF time = NoElement THEN NoneTypeError
        ELSE IF ~FloatEq(srt_point.elevation, PyFloat(elem.text))
        THEN AssertionError("Mismatch in elevation.")
        ELSE IF ~(FloatEq(srt_point.lat, lat) /\ FloatEq(srt_point.lon, lon))
        THEN AssertionError("Mismatch in coordinates.")
        ELSE IF ~convert_to_iso8601(srt_point.time).ok
        THEN InvalidTime(srt_point.time)
        ELSE IF convert_to_iso8601(srt_point.time).text # time.text
        THEN AssertionError("Mismatch in time.")
        ELSE NoError

\* Lines 118-127, one pass of the loop over zip(srt_data, trkpts): the
\* exception it raises, or NoError.
ComparePoint(srt_point, trkpt) ==
    LET lat  == PyFloat(AttrGet(trkpt, "lat"))
        lon  == PyFloat(AttrGet(trkpt, "lon"))
        elem == FindChild(trkpt, [ns |-> GpxNs, name |-> "ele"])
        time == FindChild(trkpt, [ns |-> GpxNs, name |-> "time"])
    IN  IF lat = FloatError \/ lon = FloatError THEN FloatValueError
        ELSE IF elem = NoElement THEN NoneTypeError
        ELSE IF PyFloat(elem.text) = FloatError THEN FloatValueError
        ELSE IF time = NoElement THEN NoneTypeError
        ELSE IF ~(FloatEq(srt_point.lat, lat) /\ FloatEq(srt_point.lon, lon))
        THEN AssertionError("Mismatch in coordinates.")
        ELSE IF ~FloatEq(srt_point.elevation, PyFloat(elem.text))
        THEN AssertionError("Mismatch in elevation.")
        ELSE IF ~convert_to_iso8601(srt_point.time).ok
        THEN InvalidTime(srt_point.time)
        ELSE IF convert_to_iso8601(srt_point.time).text # time.text
        THEN AssertionError("Mismatch in time.")
        ELSE NoError

\* The loop over zip(srt_data, trkpts): the first exception, or NoError.
RECURSIVE ComparePoints(_, _, _)
ComparePoints(srt_data, trkpts, k) ==
    IF k > Len(srt_data) \/ k > Len(trkpts) THEN NoError
    ELSE With(ComparePoint(srt_data[k], trkpts[k]), LAMBDA raised :
           IF raised # NoError THEN raised
           ELSE ComparePoints(srt_data, trkpts, k + 1))

\* validate_conversion(srt_data, gpx_file) on the file's element tree: the
\* exception it raises, or NoError.
validate_conversion(srt_data, written) ==
    With(XmlParse(written, NoNs), LAMBDA root :
      With(FindAll(root, [ns |-> GpxNs, name |-> "trkpt"]), LAMBDA trkpts :
        IF Len(srt_data) # Len(trkpts)
        THEN AssertionError("Mismatch in number of points.")
        ELSE ComparePoints(srt_data, trkpts, 1)))

\* --------------------------------------------------------------- main
VARIABLES
    input_files,    \* args.input_files
    output_dir,     \* args.output_dir
    no_match_time,  \* args.no_match_time
    fs,             \* the files, by the path that names them
    clock,          \* the time, in ticks
    idx,            \* the place in input_files of srt_file
    pc,             \* where main is in the loop body
    lines,          \* parse_srt: lines
    i,              \* parse_srt: i, counted from 1
    entries,        \* parse_srt: entries
    skipped,        \* parse_srt: skipped
    srt_data,       \* main: srt_data
    output_file,    \* main: output_file
    err,            \* the exception raised in the try, NoError if none
    out,            \* what was printed, in order
    calls,          \* the functions main has called for srt_file, in order
    fs_before       \* the files as they were when srt_file was begun

vars == <<input_files, output_dir, no_match_time, fs, clock, idx, pc, lines,
          i, entries, skipped, srt_data, output_file, err, out, calls,
          fs_before>>

args == <<input_files, output_dir, no_match_time>>
parse_locals == <<lines, i, entries, skipped>>

srt_file == input_files[idx]

\* os.path.basename(srt_file).replace(".srt", ".gpx")
OutputName(path) ==
    Replace(Basename(path), <<".", "s", "r", "t">>, <<".", "g", "p", "x">>)

OutputPath(dir, path) == OsPathJoin(dir, OutputName(path))

NameSet == {InputNames[n] : n \in 1..Len(InputNames)}

\* Every file a run can read or write.
Paths ==
    {NormPath(n) : n \in NameSet}
      \cup {NormPath(OutputPath(d, n)) :
              d \in OutputDirs \cap ExistingDirs, n \in NameSet}

Printed(kind, file, detail) ==
    [kind |-> kind, file |-> file, detail |-> detail]

FileNotFoundError(path) ==
    [exc |-> "FileNotFoundError",
     msg |-> <<"[Errno 2] No such file or directory: ">> \o path]
IndexError == [exc |-> "IndexError", msg |-> <<"list index out of range">>]

\* The named files as the run finds them: file n of InputNames was last
\* written at tick n.
InitialFiles ==
    [p \in Paths |->
       LET hits == {n \in 1..Len(InputNames) :
                      /\ NormPath(InputNames[n]) = p
                      /\ InputNames[n] # NameNone}
       IN  IF hits = {} THEN NoFile
           ELSE LET n == CHOOSE n \in hits : TRUE
                IN  TextFile(FixedLines(InputNames[n]), n)]

InitLocals ==
    /\ clock = Len(InputNames) + 1
    /\ idx = 1
    /\ pc = "loop"
    /\ lines = <<>> /\ i = 1 /\ entries = <<>> /\ skipped = 0
    /\ srt_data = <<>>
    /\ output_file = <<>>
    /\ err = NoError
    /\ out = <<>>
    /\ calls = <<>>

\* Any argument list over the named files.
InitNamed ==
    /\ fs = InitialFiles
    /\ fs_before = fs
    /\ InitLocals
    /\ input_files \in UNION {[1..n -> NameSet] : n \in 1..MaxFiles}
    /\ output_dir \in OutputDirs
    /\ no_match_time \in BOOLEAN

\* One input file holding any sequence of blocks.
InitGenerated ==
    /\ input_files = <<NameA>>
    /\ output_dir = DirHere
    /\ no_match_time = FALSE
    /\ InitLocals
    /\ \E content \in GeneratedFiles :
         /\ fs = [InitialFiles EXCEPT ![NameA] = TextFile(content, 1)]
         /\ fs_before = fs

Init == InitNamed \/ InitGenerated

\* Lines 159-162 and 18-22: the next srt_file, its "Processing" line, and
\* parse_srt opening and reading it.
BeginFile ==
    /\ pc = "loop" /\ idx <= Len(input_files)
    /\ out' = Append(out, Printed("Processing", srt_file, <<>>))
    /\ calls' = <<"parse_srt">>
    /\ fs_before' = fs
    /\ LET f == fs[NormPath(srt_file)]
       IN  IF f.exists
           THEN /\ lines' = ReadLines(f)
                /\ i' = 1 /\ entries' = <<>> /\ skipped' = 0
                /\ err' = NoError
                /\ pc' = "parse"
           ELSE /\ err' = FileNotFoundError(srt_file)
                /\ pc' = "except"
                /\ UNCHANGED parse_locals
    /\ UNCHANGED <<args, fs, clock, idx, srt_data, output_file>>

\* A loop pass that puts the new entry before the others.
ParseLinePrepend ==
    /\ pc = "parse" /\ i <= Len(lines)
    /\ IF ~Contains(<<"-", "-", ">">>, lines[i])
       THEN /\ i' = i + 1
            /\ UNCHANGED <<entries, skipped, err, pc>>
       ELSE IF i + 2 > Len(lines)
       THEN /\ err' = IndexError
            /\ pc' = "except"
            /\ UNCHANGED <<i, entries, skipped>>
       ELSE \E r \in {DecodeLocation(Strip(lines[i + 1]),
                                      Strip(lines[i + 2]))} :
                /\ entries' = IF r.ok THEN <<Entry(r)>> \o entries
                              ELSE entries
                /\ skipped' = IF r.ok THEN skipped ELSE skipped + 1
                /\ i' = i + 1
                /\ UNCHANGED <<err, pc>>
    /\ UNCHANGED <<args, fs, clock, idx, lines, srt_data, output_file, out,
                   calls,
                   fs_before>>

\* Lines 23-41: one pass of parse_srt's loop.
ParseLine ==
    /\ pc = "parse" /\ i <= Len(lines)
    /\ IF ~Contains(<<"-", "-", ">">>, lines[i])
       THEN /\ i' = i + 1
            /\ UNCHANGED <<entries, skipped, err, pc>>
       ELSE IF i + 2 > Len(lines)
       THEN /\ err' = IndexError
            /\ pc' = "except"
            /\ UNCHANGED <<i, entries, skipped>>
       ELSE \E r \in {DecodeLocation(Strip(lines[i + 1]),
                                      Strip(lines[i + 2]))} :
                /\ entries' = IF r.ok THEN Append(entries, Entry(r))
                              ELSE entries
                /\ skipped' = IF r.ok THEN skipped ELSE skipped + 1
                /\ i' = i + 1
                /\ UNCHANGED <<err, pc>>
    /\ UNCHANGED <<args, fs, clock, idx, lines, srt_data, output_file, out,
                   calls,
                   fs_before>>

\* Lines 42 and 162: parse_srt returns entries and skipped.
ParseReturn ==
    /\ pc = "parse" /\ i > Len(lines)
    /\ srt_data' = entries
    /\ pc' = "parsed"
    /\ UNCHANGED <<args, fs, clock, idx, parse_locals, output_file, err, out,
                   calls,
                   fs_before>>

\* A main that makes the output path whether or not there is data.
CheckDataNoSkip ==
    /\ pc = "parsed"
    /\ output_file' = OutputPath(output_dir, srt_file)
    /\ pc' = "generate"
    /\ UNCHANGED <<args, fs, clock, idx, parse_locals, srt_data, err, out,
                   calls,
                   fs_before>>

\* Lines 164-172: no data is reported and the file left; else the output
\* path is made.
CheckData ==
    /\ pc = "parsed"
    /\ IF srt_data = <<>>
       THEN /\ out' = Append(out, Printed("NoGpsData", srt_file, <<>>))
            /\ idx' = idx + 1
            /\ pc' = "loop"
            /\ UNCHANGED output_file
       ELSE /\ output_file' = OutputPath(output_dir, srt_file)
            /\ pc' = "generate"
            /\ UNCHANGED <<out, idx>>
    /\ UNCHANGED <<args, fs, clock, parse_locals, srt_data, err, calls,
                   fs_before>>

\* Lines 173 and 62-96: generate_gpx builds the tree, then writes it.
GenerateGpx ==
    /\ pc = "generate"
    /\ calls' = Append(calls, "generate_gpx")
    /\ \E built \in {TrkptsOf(srt_data)} :
           IF ~built.ok
           THEN /\ err' = InvalidTime(built.bad)
                /\ pc' = "except"
                /\ UNCHANGED <<fs, clock>>
           ELSE IF DirOf(output_file) \notin ExistingDirs
           THEN /\ err' = FileNotFoundError(output_file)
                /\ pc' = "except"
                /\ UNCHANGED <<fs, clock>>
           ELSE /\ fs' = [fs EXCEPT ![NormPath(output_file)] =
                            XmlFile(GpxTree(built.pts, clock), clock)]
                /\ clock' = clock + 1
                /\ pc' = "validate"
                /\ UNCHANGED err
    /\ UNCHANGED <<args, idx, parse_locals, srt_data, output_file, out,
                   fs_before>>

\* Lines 174 and 99-127.
ValidateConversion ==
    /\ pc = "validate"
    /\ calls' = Append(calls, "validate_conversion")
    /\ err' = validate_conversion(srt_data, fs[NormPath(output_file)].root)
    /\ pc' = IF err' = NoError THEN "match_time" ELSE "except"
    /\ UNCHANGED <<args, fs, clock, idx, parse_locals, srt_data, output_file,
                   out,
                   fs_before>>

\* Lines 130-139: os.stat of the reference, os.utime of the GPX file.
set_file_modification_time(files, gpx_file, reference_file) ==
    LET ref_stat == files[NormPath(reference_file)]
    IN  [files EXCEPT ![NormPath(gpx_file)].atime = ref_stat.atime,
                      ![NormPath(gpx_file)].mtime = ref_stat.mtime]

\* A main that copies the times whatever the flag.
MatchTimeAlways ==
    /\ pc = "match_time"
    /\ calls' = Append(calls, "set_file_modification_time")
    /\ fs' = set_file_modification_time(fs, output_file, srt_file)
    /\ pc' = "report"
    /\ UNCHANGED <<args, clock, idx, parse_locals, srt_data, output_file,
                   err, out,
                   fs_before>>

\* Lines 176-177.
MatchTime ==
    /\ pc = "match_time"
    /\ IF ~no_match_time
       THEN /\ calls' = Append(calls, "set_file_modification_time")
            /\ fs' = set_file_modification_time(fs, output_file, srt_file)
       ELSE UNCHANGED <<calls, fs>>
    /\ pc' = "report"
    /\ UNCHANGED <<args, clock, idx, parse_locals, srt_data, output_file,
                   err, out,
                   fs_before>>

\* Lines 179-180.
ReportSuccess ==
    /\ pc = "report"
    /\ out' = out \o << Printed("Success", srt_file, output_file),
                        Printed("Skipped", srt_file, NatStr(skipped)) >>
    /\ idx' = idx + 1
    /\ pc' = "loop"
    /\ UNCHANGED <<args, fs, clock, parse_locals, srt_data, output_file, err,
                   calls,
                   fs_before>>

\* A main whose except clause leaves the loop.
HandleErrorAbort ==
    /\ pc = "except"
    /\ out' = Append(out, Printed("Error", srt_file, err.msg))
    /\ err' = NoError
    /\ idx' = Len(input_files) + 1
    /\ pc' = "loop"
    /\ UNCHANGED <<args, fs, clock, parse_locals, srt_data, output_file,
                   calls,
                   fs_before>>

\* Lines 181-182: the exception is printed and the loop goes on.
HandleError ==
    /\ pc = "except"
    /\ out' = Append(out, Printed("Error", srt_file, err.msg))
    /\ err' = NoError
    /\ idx' = idx + 1
    /\ pc' = "loop"
    /\ UNCHANGED <<args, fs, clock, parse_locals, srt_data, output_file,
                   calls,
                   fs_before>>

\* Line 159: the list is exhausted and main returns.
Finish ==
    /\ pc = "loop" /\ idx > Len(input_files)
    /\ pc' = "done"
    /\ UNCHANGED <<args, fs, clock, idx, parse_locals, srt_data, output_file,
                   err, out, calls,
                   fs_before>>

Next ==
    \/ BeginFile \/ ParseLine \/ ParseReturn \/ CheckData \/ GenerateGpx
    \/ ValidateConversion \/ MatchTime \/ ReportSuccess \/ HandleError
    \/ Finish

Spec == Init /\ [][Next]_vars

\* Any argument list over the named files, written to the default
\* output directory.
InitDefaultDir == InitNamed /\ output_dir = DirHere

\* main runs to its end: a step that can be taken is taken.
FairSpec == InitDefaultDir /\ [][Next]_vars /\ WF_vars(Next)

\* ------------------------------------- validate_conversion on its own
\* Records that differ from the first in each way a point can.
ValBase == DecodeLocation(TimeEvening, LocGood)
ValRecords ==
    { Entry(ValBase),
      Entry([ValBase EXCEPT !.lat = PyFloat(<<"2", ".", "5">>)]),
      Entry([ValBase EXCEPT !.elevation = PyFloat(<<"8">>)]),
      Entry([ValBase EXCEPT !.time = TimeMidnight]),
      Entry([ValBase EXCEPT !.lon = PyFloat(<<"3">>),
                            !.elevation = PyFloat(<<"8">>),
                            !.time = TimeMidnight]) }

ValSeqs == UNION {[1..n -> ValRecords] : n \in 0..MaxPts}

\* validate_conversion is about to be called with any record sequence and
\* the written form of any other.
InitValidate ==
    /\ input_files = <<NameA>>
    /\ output_dir = DirHere
    /\ no_match_time = FALSE
    /\ clock = Len(InputNames) + 2
    /\ idx = 1
    /\ pc = "validate"
    /\ lines = <<>> /\ i = 1 /\ entries = <<>> /\ skipped = 0
    /\ output_file = OutputPath(DirHere, NameA)
    /\ err = NoError
    /\ out = <<Printed("Processing", NameA, <<>>)>>
    /\ calls = <<"parse_srt", "generate_gpx">>
    /\ fs_before = InitialFiles
    /\ \E written \in ValSeqs :
         fs = [fs_before EXCEPT ![NormPath(output_file)] =
                 XmlFile(GpxTree(TrkptsOf(written).pts, clock - 1),
                         clock - 1)]
    /\ srt_data \in ValSeqs

NextValidate == ValidateConversion

SpecValidate == InitValidate /\ [][NextValidate]_vars

\* ------------------------------------------------------- what is said
Arrow == <<"-", "-", ">">>

Range(seq) == {seq[j] : j \in 1..Len(seq)}
Kinds(printed) == {printed[j].kind : j \in 1..Len(printed)}
FilesOf(printed) == [j \in 1..Len(printed) |-> printed[j].file]

\* The "Processing" lines, and the lines that end a file's turn.
Processings == SelectSeq(out, LAMBDA e : e.kind = "Processing")
Outcomes ==
    SelectSeq(out, LAMBDA e : e.kind \in {"NoGpsData", "Success", "Error"})

\* What was printed for the file begun last, from its "Processing" line on.
Report ==
    LET begun == {j \in 1..Len(out) : out[j].kind = "Processing"}
    IN  IF begun = {} THEN <<>>
        ELSE SubSeq(out, CHOOSE j \in begun : \A h \in begun : h <= j,
                    Len(out))

SuccessReported == "Success" \in Kinds(Report)
FileSkipped == "NoGpsData" \in Kinds(Report)
FileFailed == pc = "except" \/ "Error" \in Kinds(Report)
TimeCopied == "set_file_modification_time" \in Range(calls)

\* C1: the input files are processed in the order given, and an error
\* raised while one is processed is caught and reported for it and stops no
\* later file: main ends having begun every file of the list, in order, and
\* having printed one outcome for each.
C1_EveryFileAttempted ==
    <>[](/\ pc = "done"
         /\ FilesOf(Processings) = input_files
         /\ FilesOf(Outcomes) = input_files)

\* C1's case: the first file failed and the second was converted.
C1_ErrorThenSuccess ==
    /\ pc = "done"
    /\ Len(Outcomes) >= 2
    /\ Outcomes[1].kind = "Error"
    /\ Outcomes[2].kind = "Success"

\* C2: validate_conversion of the records parse_srt returned, against the
\* file generate_gpx wrote from them, raises nothing.
C2_RoundTripFidelity ==
    (calls # <<>> /\ calls[Len(calls)] = "validate_conversion")
      => err = NoError

\* The lines of ls that start a block that yields a record.
GpsBlockLines(ls) ==
    {j \in 1..(Len(ls) - 2) :
       /\ Contains(Arrow, ls[j])
       /\ DecodeLocation(Strip(ls[j + 1]), Strip(ls[j + 2])).ok}

\* The k-th smallest member of a set of numbers.
Kth(S, k) == CHOOSE j \in S : Cardinality({h \in S : h < j}) = k - 1

ChildrenNamed(e, name) ==
    SelectSeq(e.children, LAMBDA c : c.tag.name = name)

\* C3: the document written for a file that converts has one track with
\* one segment, whose trkpts are the blocks of the input that yield a
\* record, one for one and in order: the k-th trkpt has the latitude,
\* longitude, elevation and normalized time of the k-th such block.
C3_CountAndOrder ==
    pc = "report" =>
      LET root   == fs[NormPath(output_file)].root
          trks   == ChildrenNamed(root, "trk")
          segs   == ChildrenNamed(trks[1], "trkseg")
          pts    == segs[1].children
          blocks == GpsBlockLines(lines)
      IN  /\ Len(trks) = 1 /\ Len(trks[1].children) = 1 /\ Len(segs) = 1
          /\ Len(pts) = Cardinality(blocks)
          /\ \A k \in 1..Len(pts) :
               LET j == Kth(blocks, k)
                   r == DecodeLocation(Strip(lines[j + 1]),
                                       Strip(lines[j + 2]))
               IN  /\ pts[k].tag.name = "trkpt"
                   /\ FloatEq(PyFloat(AttrGet(pts[k], "lat")), r.lat)
                   /\ FloatEq(PyFloat(AttrGet(pts[k], "lon")), r.lon)
                   /\ Len(pts[k].children) = 2
                   /\ pts[k].children[1].tag.name = "ele"
                   /\ FloatEq(PyFloat(pts[k].children[1].text), r.elevation)
                   /\ pts[k].children[2].tag.name = "time"
                   /\ pts[k].children[2].text
                        = convert_to_iso8601(Strip(lines[j + 1])).text

\* C3's case: a converted file of two different records with a block
\* between them that yields none.
C3_TwoPointsOneSkipped ==
    /\ pc = "report"
    /\ Len(srt_data) = 2 /\ srt_data[1] # srt_data[2]
    /\ skipped = 1

\* C4: a file whose processing fails leaves no output file created or
\* modified; an output file is left only by a file that converted.
C4_NoPartialOutput == pc = "except" => fs = fs_before

\* C5: when parse_srt returns no records, main prints that the file has no
\* GPS data, calls nothing further for it, writes nothing, raises nothing
\* and goes to the next file.
C5_EmptyInputSkipped ==
    [][(pc = "parsed" /\ srt_data = <<>>) =>
         /\ out' = Append(out, Printed("NoGpsData", srt_file, <<>>))
         /\ calls' = <<"parse_srt">>
         /\ fs' = fs
         /\ err' = NoError
         /\ idx' = idx + 1
         /\ pc' = "loop"]_vars

\* C5's case: a file was skipped as empty and the next is being parsed.
C5_SkippedThenNext ==
    /\ "NoGpsData" \in Kinds(out)
    /\ pc = "parse"
    /\ idx = 2

\* os.path.splitext(name)[0]: name without its extension.
RECURSIVE Stem(_)
Stem(name) ==
    IF Len(name) <= 1 THEN name
    ELSE IF name[Len(name)] = "." THEN Slice(name, 1, Len(name) - 1)
    ELSE IF Contains(<<".">>, Tail(name))
    THEN Stem(Slice(name, 1, Len(name) - 1))
    ELSE name

\* C6: a converted file's output is in output_dir under the input's base
\* name with its extension replaced by .gpx, and is never the input file.
C6_OutputNaming ==
    pc = "report" =>
      /\ output_file = OsPathJoin(output_dir, Stem(Basename(srt_file))
                                                \o <<".", "g", "p", "x">>)
      /\ NormPath(output_file) # NormPath(srt_file)

StageOrder ==
    <<"parse_srt", "generate_gpx", "validate_conversion",
      "set_file_modification_time">>

IsPrefix(a, b) == Len(a) <= Len(b) /\ a = SubSeq(b, 1, Len(a))

\* The output file has the access and modification times of the file
\* begun last.
TimesMatch ==
    LET gpx == fs[NormPath(output_file)]
        ref == fs[NormPath(Report[1].file)]
    IN  gpx.atime = ref.atime /\ gpx.mtime = ref.mtime

\* The stages run in order, the times are copied only without the flag
\* and after validation passed, and a success without the flag has them
\* copied.
StagesInOrder ==
    /\ IsPrefix(calls, StageOrder)
    /\ TimeCopied => (~no_match_time /\ err = NoError /\ TimesMatch)
    /\ SuccessReported =>
         /\ IsPrefix(SubSeq(StageOrder, 1, 3), calls)
         /\ ~no_match_time => (TimeCopied /\ TimesMatch)

\* C7 as stated: the stages run in order with the times copied exactly
\* when the flag is absent and validation passed; with the flag, for an
\* empty file, or after a failure, no times are copied and no success is
\* reported.
C7_NoSuccessWithFlag ==
    /\ StagesInOrder
    /\ (no_match_time \/ FileSkipped \/ FileFailed)
         => (~TimeCopied /\ ~SuccessReported)

\* C7 as amended: with the flag no times are copied; for an empty file or
\* after a failure no times are copied and no success is reported.
C7_StageOrderAndTimes ==
    /\ StagesInOrder
    /\ no_match_time => ~TimeCopied
    /\ (FileSkipped \/ FileFailed) => (~TimeCopied /\ ~SuccessReported)

\* C7's case: a success with the times copied onto another file.
C7_TimesCopied ==
    /\ SuccessReported /\ TimeCopied
    /\ NormPath(output_file) # NormPath(Report[1].file)
    /\ fs[NormPath(output_file)].mtime < clock - 1

\* C8: a timing line with fewer than two lines after it is a skipped
\* block: parse_srt raises no IndexError.
C8_TrailingBlockSkipped == err # IndexError

\* A field with one trailing unit suffix taken off.
UnitStripped(field) ==
    LET t == Strip(field)
    IN  IF t # <<>> /\ t[Len(t)] = "m" THEN Slice(t, 1, Len(t) - 1) ELSE t

\* A location with no comma, a field that is no number, or no third field.
Undecodable(location_data) ==
    \/ ~Contains(<<",">>, location_data)
    \/ LET fields == Split(location_data, ",")
       IN  \/ PyFloat(fields[1]) = FloatError
           \/ PyFloat(fields[2]) = FloatError
           \/ Len(fields) < 3
           \/ PyFloat(UnitStripped(fields[3])) = FloatError

\* C9: a timing line with two lines after it adds one record or one to
\* skipped, never both or neither, and raises nothing; a location with no
\* comma, a non-numeric field or no third field adds no record.
C9_SkipAndCount ==
    [][(/\ pc = "parse" /\ i <= Len(lines)
        /\ Contains(Arrow, lines[i]) /\ i + 2 <= Len(lines)) =>
         /\ pc' = "parse" /\ err' = NoError
         /\ \/ Len(entries') = Len(entries) + 1 /\ skipped' = skipped
            \/ entries' = entries /\ skipped' = skipped + 1
         /\ Undecodable(Strip(lines[i + 2])) => entries' = entries]_vars

\* The track points of the document as validate_conversion reads them.
DocPoints(written) ==
    LET pts == FindAll(XmlParse(written, NoNs),
                       [ns |-> GpxNs, name |-> "trkpt"])
    IN  [k \in 1..Len(pts) |->
           [lat |-> PyFloat(AttrGet(pts[k], "lat")),
            lon |-> PyFloat(AttrGet(pts[k], "lon")),
            elevation |-> PyFloat(pts[k].children[1].text),
            time |-> pts[k].children[2].text]]

CoordsBroken(r, p) == ~(FloatEq(r.lat, p.lat) /\ FloatEq(r.lon, p.lon))
ElevationBroken(r, p) == ~FloatEq(r.elevation, p.elevation)
TimeBroken(r, p) == convert_to_iso8601(r.time).text # p.time

\* The first place where record and point differ, 0 if none.
FirstBroken(R, P) ==
    LET broken == {k \in 1..Len(R) :
                     \/ CoordsBroken(R[k], P[k])
                     \/ ElevationBroken(R[k], P[k])
                     \/ TimeBroken(R[k], P[k])}
    IN  IF broken = {} THEN 0
        ELSE CHOOSE k \in broken : \A h \in broken : k <= h

\* What the validator is to raise for records R against points P.
ExpectedMismatch(R, P) ==
    IF Len(R) # Len(P) THEN AssertionError("Mismatch in number of points.")
    ELSE IF FirstBroken(R, P) = 0 THEN NoError
    ELSE LET k == FirstBroken(R, P)
         IN  IF CoordsBroken(R[k], P[k])
             THEN AssertionError("Mismatch in coordinates.")
             ELSE IF ElevationBroken(R[k], P[k])
             THEN AssertionError("Mismatch in elevation.")
             ELSE AssertionError("Mismatch in time.")

Validated == pc \in {"match_time", "except"}

\* C10 as amended: a document whose points differ from the records fails
\* validation with the mismatch of the first check that fails, the count
\* before any point, then at the first differing point coordinates before
\* elevation before time; the error names the check, not the place.
C10_MismatchKind ==
    Validated =>
      LET P == DocPoints(fs[NormPath(output_file)].root)
      IN  /\ err = ExpectedMismatch(srt_data, P)
          /\ (Len(srt_data) # Len(P) \/ FirstBroken(srt_data, P) # 0)
               => (pc = "except" /\ err.exc = "AssertionError")

\* C10's case: the first point agrees and the second differs in elevation
\* and in time.
C10_SecondPointBroken ==
    /\ pc = "except"
    /\ err = AssertionError("Mismatch in elevation.")
    /\ LET P == DocPoints(fs[NormPath(output_file)].root)
       IN  /\ Len(P) = Len(srt_data)
           /\ FirstBroken(srt_data, P) = 2
           /\ TimeBroken(srt_data[2], P[2])

\* C10 as stated: the error of a differing point also tells the place of
\* the first differing point, so no other records and document with the
\* first difference elsewhere raise the same error.
C10_MismatchNamesPosition ==
    (pc = "except" /\ err # AssertionError("Mismatch in number of points."))
      => \A R \in ValSeqs, D \in ValSeqs :
           LET written == GpxTree(TrkptsOf(D).pts, clock)
           IN  validate_conversion(R, written) = err
                 => FirstBroken(R, DocPoints(written))
                      = FirstBroken(srt_data,
                                    DocPoints(fs[NormPath(output_file)].root))

====
